---- MODULE Spec2Model ----
(***************************************************************************)
(* Model of deepprojection/dataset.py: the label-file parser               *)
(* (ImgLabelFileParser), the image accessor (PsanaImg), the flat catalog   *)
(* (SPIImg) and the triplet dataset built on it (SPIImgDataset).           *)
(*                                                                         *)
(* A label file is a JSON object; it is modelled as the sequence of its    *)
(* (key, label) items in file order, every key a decimal string (a         *)
(* sequence of digits).  An image is identified by the (exp, run,          *)
(* event_num) it was fetched for.                                          *)
(***************************************************************************)
EXTENDS Integers, Sequences, FiniteSets, TLC

\* ------------------------------------------------------------------------
\* Bounds of the model
\* ------------------------------------------------------------------------
MaxRows == 2
MaxSizeSample == 2

Objs == {1, 2}
Exps == {"amo06516"}
Runs == {"102", "103"}
Basenames == Exps \X Runs
EventKeys == {<<2>>, <<1, 0>>}
CatalogLabels == {0, 1}
Seeds == {0, 1}
TimestampCounts == {10, 11}

\* ------------------------------------------------------------------------
\* Python built-ins used by the code
\* ------------------------------------------------------------------------
RECURSIVE ParseInt(_)
ParseInt(s) ==
    IF s = <<>> THEN 0 ELSE 10 * ParseInt(SubSeq(s, 1, Len(s) - 1)) + s[Len(s)]

DictSetAppend(d, k, v) == Append(d, [key |-> k, val |-> v])

\* d[k] = v on an insertion-ordered dict: a present key keeps its position
DictHas(d, k) == \E i \in 1..Len(d) : d[i].key = k
DictGet(d, k) == d[CHOOSE i \in 1..Len(d) : d[i].key = k].val
DictSet(d, k, v) ==
    IF DictHas(d, k)
    THEN [i \in 1..Len(d) |-> IF d[i].key = k THEN [key |-> k, val |-> v] ELSE d[i]]
    ELSE Append(d, [key |-> k, val |-> v])

PyIndexMirror(idx, n) == IF idx < 0 THEN 0 - idx ELSE idx + 1

\* seq[idx] on a list of length n: negative indices count from the end
PyInRange(idx, n) == idx < n /\ idx >= -n
PyIndex(idx, n) == IF idx < 0 THEN idx + n + 1 ELSE idx + 1

\* ------------------------------------------------------------------------
\* ImgLabelFileParser
\* ------------------------------------------------------------------------
\* lexicographic order of two decimal strings
RECURSIVE LexLE(_, _)
LexLE(s, t) ==
    IF s = <<>> THEN TRUE
    ELSE IF t = <<>> THEN FALSE
    ELSE IF s[1] # t[1] THEN s[1] < t[1]
    ELSE LexLE(Tail(s), Tail(t))

KeyLELexical(a, b) == LexLE(a.key, b.key)
\* the order of sorted(..., key = lambda x: int(x[0]))
KeyLE(a, b) == ParseInt(a.key) <= ParseInt(b.key)

\* position of a new item in a list already sorted: after every item that
\* does not come after it (sorted() is stable)
InsertSorted(sorted, item) ==
    LET n == Cardinality({i \in 1..Len(sorted) : KeyLE(sorted[i], item)})
    IN  SubSeq(sorted, 1, n) \o <<item>> \o SubSeq(sorted, n + 1, Len(sorted))

RECURSIVE Sorted(_)
Sorted(items) ==
    IF items = <<>> THEN <<>>
    ELSE InsertSorted(Sorted(SubSeq(items, 1, Len(items) - 1)), items[Len(items)])

LoadImglabelDefault(file) ==
    IF file.exists THEN Sorted(file.items) ELSE <<[key |-> <<0>>, label |-> 0]>>

\* ImgLabelFileParser._load_imglabel: a missing file leaves imglabel_dict empty
LoadImglabel(file) == IF file.exists THEN Sorted(file.items) ELSE <<>>


\* ------------------------------------------------------------------------
\* State
\* ------------------------------------------------------------------------
VARIABLES
    manifest,              \* rows of fl_csv after the header: [exp, run]
    labelfile,             \* the label file at each run's path
    timestamps,            \* number of timestamps of each run's data source
    args,                  \* constructor arguments (size_sample, seed)
    kind,                  \* class of each object: SPIImg or SPIImgDataset
    pc,                    \* position of each object's constructor
    line,                  \* rows of the manifest the constructor has read
    dataset_dict,          \* self.dataset_dict
    psana_imgreader_dict,  \* self.psana_imgreader_dict
    imglabel_list,         \* self.imglabel_list
    num_stockimgs,         \* self.num_stockimgs
    size_sample,           \* self.size_sample
    seed,                  \* self.seed
    label_seqi_dict,       \* self.label_seqi_dict
    rng,                   \* state of the process-wide generator of random
    opens,                 \* data sources opened so far, per run
    ret,                   \* outcome of the latest call
    drawn                  \* index triples each object has returned so far

vars == <<manifest, labelfile, timestamps, args, kind, pc, line, dataset_dict,
          psana_imgreader_dict, imglabel_list, num_stockimgs, size_sample,
          seed, label_seqi_dict, rng, opens, ret, drawn>>

inputs == <<manifest, labelfile, timestamps, args, kind>>
catalog == <<dataset_dict, psana_imgreader_dict, imglabel_list>>
sampler == <<num_stockimgs, size_sample, seed, label_seqi_dict>>

Rows == [exp : Exps, run : Runs]
Manifests == UNION {[1..n -> Rows] : n \in 0..MaxRows}

DistinctKeys(items) ==
    \A i, j \in 1..Len(items) : i # j => items[i].key # items[j].key

\* the label files over a set of labels: absent, or a JSON object whose
\* items have distinct keys of EventKeys, in any file order
ItemLists(labels) ==
    {items \in UNION {[1..n -> [key : EventKeys, label : labels]] :
                        n \in 0..Cardinality(EventKeys)} :
        DistinctKeys(items)}
LabelFiles(labels) ==
    {[exists |-> FALSE, items |-> <<>>]}
        \cup {[exists |-> TRUE, items |-> items] : items \in ItemLists(labels)}

NoReturn == [op |-> "none", obj |-> 0, arg |-> 0, kind |-> "None",
             where |-> "", ids |-> <<>>, imgs |-> <<>>, label |-> -1, num |-> -1]

InitObjects(cls) ==
    /\ kind = [o \in Objs |-> cls]
    /\ pc = [o \in Objs |-> "new"]
    /\ line = [o \in Objs |-> 0]
    /\ dataset_dict = [o \in Objs |-> <<>>]
    /\ psana_imgreader_dict = [o \in Objs |-> <<>>]
    /\ imglabel_list = [o \in Objs |-> <<>>]
    /\ num_stockimgs = [o \in Objs |-> 0]
    /\ size_sample = [o \in Objs |-> 0]
    /\ seed = [o \in Objs |-> 0]
    /\ label_seqi_dict = [o \in Objs |-> <<>>]
    /\ opens = [b \in Basenames |-> 0]
    /\ ret = NoReturn
    /\ drawn = [o \in Objs |-> {}]

\* ------------------------------------------------------------------------
\* PsanaImg
\* ------------------------------------------------------------------------
\* PsanaImg(exp, run, mode, detector_name): opens the data source
PsanaImg(b) ==
    [datasource_id |-> b, timestamps |-> timestamps[b], handle |-> opens[b] + 1]

\* PsanaImg.get(event_num): self.timestamps[int(event_num)]
PsanaGetOk(reader, event_num) == PyInRange(event_num, reader.timestamps)

\* ------------------------------------------------------------------------
\* SPIImg
\* ------------------------------------------------------------------------
Constructing == \E o \in Objs : pc[o] \notin {"new", "ready"}

\* SPIImg.__init__, up to the header of the manifest
Open(o) ==
    /\ pc[o] = "new"
    /\ ~Constructing
    /\ pc' = [pc EXCEPT ![o] = "rows"]
    /\ ret' = NoReturn
    /\ UNCHANGED <<inputs, line, catalog, sampler, rng, opens, drawn>>

\* SPIImg.__init__: one line of the manifest
ReadRow(o) ==
    /\ pc[o] = "rows"
    /\ line[o] < Len(manifest)
    /\ LET row == manifest[line[o] + 1]
           basename == <<row.exp, row.run>>
       IN  /\ psana_imgreader_dict' =
                [psana_imgreader_dict EXCEPT
                    ![o] = DictSet(@, basename, PsanaImg(basename))]
           /\ opens' = [opens EXCEPT ![basename] = @ + 1]
           /\ dataset_dict' =
                [dataset_dict EXCEPT
                    ![o] = DictSet(@, basename, LoadImglabel(labelfile[basename]))]
    /\ line' = [line EXCEPT ![o] = @ + 1]
    /\ UNCHANGED <<inputs, pc, imglabel_list, sampler, rng, ret, drawn>>

\* the samples of one dataset, in the order of its imglabel_dict
Samples(basename, content) ==
    [i \in 1..Len(content) |->
        [exp |-> basename[1], run |-> basename[2],
         event_num |-> ParseInt(content[i].key), label |-> content[i].label]]

RECURSIVE EnumerateAll(_)
EnumerateAll(d) ==
    IF d = <<>> THEN <<>>
    ELSE EnumerateAll(SubSeq(d, 1, Len(d) - 1)) \o Samples(d[Len(d)].key, d[Len(d)].val)

\* SPIImg.__init__: the manifest is read; enumerate each image of all datasets
Enumerate(o) ==
    /\ pc[o] = "rows"
    /\ line[o] = Len(manifest)
    /\ imglabel_list' = [imglabel_list EXCEPT ![o] = EnumerateAll(dataset_dict[o])]
    /\ pc' = [pc EXCEPT ![o] = IF kind[o] = "SPIImgDataset" THEN "buckets" ELSE "ready"]
    /\ UNCHANGED <<inputs, line, dataset_dict, psana_imgreader_dict, sampler,
                   rng, opens, ret, drawn>>


Running(o) == pc[o] = "ready" /\ ~Constructing

Return(op, o, arg, out) ==
    [op |-> op, obj |-> o, arg |-> arg, kind |-> out.kind, where |-> out.where,
     ids |-> out.ids, imgs |-> out.imgs, label |-> out.label, num |-> -1]

\* an exception and the lookup that raised it
Raise(error, where, ids) ==
    [kind |-> error, where |-> where, ids |-> ids, imgs |-> <<>>, label |-> -1]

\* the body shared by SPIImg.__getitem__ and SPIImg.get_imagesize: resolve
\* self.imglabel_list[idx], then fetch the image from the reader of its run
Lookup(o, idx) ==
    LET n == Len(imglabel_list[o]) IN
    IF ~PyInRange(idx, n) THEN Raise("IndexError", "imglabel_list", <<>>)
    ELSE LET i == PyIndex(idx, n)
             s == imglabel_list[o][i]
             reader == DictGet(psana_imgreader_dict[o], <<s.exp, s.run>>)
         IN  IF ~PsanaGetOk(reader, s.event_num) THEN Raise("IndexError", "timestamps", <<i - 1>>)
             ELSE [kind |-> "value", where |-> "", ids |-> <<i - 1>>,
                   imgs |-> << <<s.exp, s.run, s.event_num>> >>, label |-> s.label]

\* the indices a caller tries on a list of length n: both ends of the
\* list, counted from the front and from the back, and one past each
Indices(n) == {0 - n - 1, 0 - n, 0 - 1, 0, n - 1, n}

\* SPIImg.__len__
Length(o) ==
    /\ Running(o)
    /\ kind[o] = "SPIImg"
    /\ ret' = [NoReturn EXCEPT !.op = "len", !.obj = o, !.kind = "value",
                               !.num = Len(imglabel_list[o])]
    /\ UNCHANGED <<inputs, pc, line, catalog, sampler, rng, opens, drawn>>

\* SPIImg.__getitem__
GetItem(o, idx) ==
    /\ Running(o)
    /\ kind[o] = "SPIImg"
    /\ ret' = Return("getitem", o, idx, Lookup(o, idx))
    /\ UNCHANGED <<inputs, pc, line, catalog, sampler, rng, opens, drawn>>

\* a get_imagesize that sets the data source up again for every image
GetImagesizeReopening(o, idx) ==
    /\ Running(o)
    /\ ret' = Return("get_imagesize", o, idx, Lookup(o, idx))
    /\ \E b \in Basenames :
        /\ DictHas(psana_imgreader_dict[o], b)
        /\ psana_imgreader_dict' =
             [psana_imgreader_dict EXCEPT ![o] = DictSet(@, b, PsanaImg(b))]
        /\ opens' = [opens EXCEPT ![b] = @ + 1]
    /\ UNCHANGED <<inputs, pc, line, dataset_dict, imglabel_list, sampler, rng, drawn>>

\* SPIImg.get_imagesize
GetImagesize(o, idx) ==
    /\ Running(o)
    /\ ret' = Return("get_imagesize", o, idx, Lookup(o, idx))
    /\ UNCHANGED <<inputs, pc, line, catalog, sampler, rng, opens, drawn>>


\* ------------------------------------------------------------------------
\* The process-wide generator of the random module.  The generator is a
\* deterministic function of its state: seed() sets the state from the
\* seed, every draw advances it and scales it into the population.
\* ------------------------------------------------------------------------
RngStates == 0..15
RngSeed(s) == (7 * s + 3) % 16
RngNext(g) == (5 * g + 7) % 16

\* a sample that falls back to index 0 on an empty population
SampleOrFirst(population, g) ==
    LET g1 == RngNext(g) IN
    IF population = <<>> THEN [ok |-> TRUE, x |-> 0, rng |-> g1]
    ELSE [ok |-> TRUE, x |-> population[((g1 * Len(population)) \div 16) + 1], rng |-> g1]

\* random.sample(population, 1)[0]; ValueError on an empty population
Sample(population, g) ==
    IF population = <<>> THEN [ok |-> FALSE, x |-> 0, rng |-> g]
    ELSE LET g1 == RngNext(g)
         IN  [ok |-> TRUE, x |-> population[((g1 * Len(population)) \div 16) + 1],
              rng |-> g1]

\* range(n)
Range(n) == [i \in 1..n |-> i - 1]

\* ------------------------------------------------------------------------
\* SPIImgDataset
\* ------------------------------------------------------------------------
BucketOverwrite(d, label, seqi) == DictSet(d, label, <<seqi>>)

\* one step of the loop that fills self.label_seqi_dict
BucketAdd(d, label, seqi) ==
    IF ~DictHas(d, label) THEN DictSet(d, label, <<seqi>>)
    ELSE DictSet(d, label, Append(DictGet(d, label), seqi))

RECURSIVE LabelSeqiDict(_)
LabelSeqiDict(list) ==
    IF list = <<>> THEN <<>>
    ELSE BucketAdd(LabelSeqiDict(SubSeq(list, 1, Len(list) - 1)),
                   list[Len(list)].label, Len(list) - 1)

\* SPIImgDataset.__init__ after super().__init__
BuildBuckets(o) ==
    /\ pc[o] = "buckets"
    /\ num_stockimgs' = [num_stockimgs EXCEPT ![o] = Len(imglabel_list[o])]
    /\ size_sample' = [size_sample EXCEPT ![o] = args[o].size_sample]
    /\ seed' = [seed EXCEPT ![o] = args[o].seed]
    /\ label_seqi_dict' = [label_seqi_dict EXCEPT ![o] = LabelSeqiDict(imglabel_list[o])]
    /\ pc' = [pc EXCEPT ![o] = "ready"]
    /\ UNCHANGED <<inputs, line, catalog, rng, opens, ret, drawn>>

\* SPIImgDataset.__len__
SampleLength(o) ==
    /\ Running(o)
    /\ kind[o] = "SPIImgDataset"
    /\ ret' = [NoReturn EXCEPT !.op = "len", !.obj = o, !.kind = "value",
                               !.num = size_sample[o]]
    /\ UNCHANGED <<inputs, pc, line, catalog, sampler, rng, opens, drawn>>

IndexAboveSize(o, idx) == idx > size_sample[o]
\* the guard of SPIImgDataset.__getitem__
IndexTooLarge(o, idx) == idx >= size_sample[o]

ReseedSkipped(o, g) == g
\* random.seed(self.seed)
Reseed(o, g) == RngSeed(seed[o])

RECURSIVE NegBucketAll(_, _)
NegBucketAll(d, label_anchor) ==
    IF d = <<>> THEN <<>>
    ELSE NegBucketAll(SubSeq(d, 1, Len(d) - 1), label_anchor) \o d[Len(d)].val

\* the buckets of every label but the anchor's, concatenated in dict order
RECURSIVE NegBucket(_, _)
NegBucket(d, label_anchor) ==
    IF d = <<>> THEN <<>>
    ELSE NegBucket(SubSeq(d, 1, Len(d) - 1), label_anchor)
            \o (IF d[Len(d)].key = label_anchor THEN <<>> ELSE d[Len(d)].val)

Failed(error, where, g) ==
    [kind |-> error, where |-> where, ids |-> <<>>, imgs |-> <<>>, label |-> -1, rng |-> g]

\* the outcome of SPIImgDataset.__getitem__(idx) when the generator is in state g
Triplet(o, idx, g) ==
    IF IndexTooLarge(o, idx) THEN Failed("IndexError", "size_sample", g)
    ELSE
    LET a == Sample(Range(num_stockimgs[o]), Reseed(o, g)) IN
    IF ~a.ok THEN Failed("ValueError", "anchor_bucket", a.rng)
    ELSE
    LET anchor == Lookup(o, a.x) IN
    IF anchor.kind # "value" THEN Failed(anchor.kind, anchor.where, a.rng)
    ELSE
    LET pos_bucket == DictGet(label_seqi_dict[o], anchor.label)
        neg_bucket == NegBucket(label_seqi_dict[o], anchor.label)
        p == Sample(pos_bucket, a.rng)
        n == Sample(neg_bucket, p.rng)
    IN
    IF ~p.ok THEN Failed("ValueError", "pos_bucket", p.rng)
    ELSE IF ~n.ok THEN Failed("ValueError", "neg_bucket", n.rng)
    ELSE
    LET pos == Lookup(o, p.x)
        neg == Lookup(o, n.x)
    IN
    IF pos.kind # "value" THEN Failed(pos.kind, pos.where, n.rng)
    ELSE IF neg.kind # "value" THEN Failed(neg.kind, neg.where, n.rng)
    ELSE [kind |-> "value", where |-> "", ids |-> <<a.x, p.x, n.x>>,
          imgs |-> anchor.imgs \o pos.imgs \o neg.imgs,
          label |-> anchor.label, rng |-> n.rng]

\* SPIImgDataset.__getitem__
GetTriplet(o, idx) ==
    /\ Running(o)
    /\ kind[o] = "SPIImgDataset"
    /\ LET out == Triplet(o, idx, rng)
       IN  /\ ret' = Return("getitem", o, idx, out)
           /\ rng' = out.rng
           /\ drawn' = IF out.kind = "value"
                       THEN [drawn EXCEPT ![o] = @ \cup {out.ids}]
                       ELSE drawn
    /\ UNCHANGED <<inputs, pc, line, catalog, sampler, opens>>

\* ------------------------------------------------------------------------
\* Specifications
\* ------------------------------------------------------------------------
DatasetLabels == {0, 1, 2}
Arguments == [size_sample : {MaxSizeSample}, seed : Seeds]

\* label files as json.dump(sort_keys = True) writes them: the keys in
\* lexicographic order, "10" before "2"
KeySortedFiles(labels) ==
    {f \in LabelFiles(labels) :
        \A i \in 1..Len(f.items) - 1 : LexLE(f.items[i].key, f.items[i + 1].key)}

\* a process that builds one SPIImg and uses it; every run has its own data
\* source, and a label file may list its keys in any order
InitCatalog ==
    /\ manifest \in Manifests
    /\ labelfile \in [Basenames -> LabelFiles(CatalogLabels)]
    /\ timestamps \in [Basenames -> TimestampCounts]
    /\ args = [o \in Objs |-> [size_sample |-> 1, seed |-> 0]]
    /\ rng = 0
    /\ InitObjects("SPIImg")

NextCatalog ==
    \/ Open(1)
    \/ ReadRow(1)
    \/ Enumerate(1)
    \/ Length(1)
    \/ \E idx \in Indices(Len(imglabel_list[1])) : GetItem(1, idx)
    \/ \E idx \in Indices(Len(imglabel_list[1])) : GetImagesize(1, idx)

SpecCatalog == InitCatalog /\ [][NextCatalog]_vars

DistinctManifests ==
    {m \in Manifests : \A i, j \in 1..Len(m) : i # j => m[i] # m[j]}

\* a process that builds one SPIImgDataset and uses it; the manifest lists
\* every run once
Init ==
    /\ manifest \in DistinctManifests
    /\ labelfile \in [Basenames -> KeySortedFiles(DatasetLabels)]
    /\ \E n \in TimestampCounts : timestamps = [b \in Basenames |-> n]
    /\ \E a \in Arguments : args = [o \in Objs |-> a]
    /\ rng = 0
    /\ InitObjects("SPIImgDataset")

Next ==
    \/ Open(1)
    \/ ReadRow(1)
    \/ Enumerate(1)
    \/ BuildBuckets(1)
    \/ SampleLength(1)
    \/ \E idx \in Indices(Len(imglabel_list[1])) : GetImagesize(1, idx)
    \/ \E idx \in (0 - 1)..size_sample[1] : GetTriplet(1, idx)

Spec == Init /\ [][Next]_vars

\* a process that builds two SPIImgDataset objects, one after the other, from
\* the same manifest (every run listed once) with the same arguments and draws
\* triplets from both; every event has its image, and the generator starts in a
\* state the process does not control
InitPair ==
    /\ manifest \in DistinctManifests
    /\ labelfile \in [Basenames -> KeySortedFiles(CatalogLabels)]
    /\ timestamps = [b \in Basenames |-> 11]
    /\ \E a \in Arguments : args = [o \in Objs |-> a]
    /\ rng \in {0, 9}
    /\ InitObjects("SPIImgDataset")

NextPair ==
    \E o \in Objs :
        \/ Open(o)
        \/ ReadRow(o)
        \/ Enumerate(o)
        \/ BuildBuckets(o)
        \/ \E idx \in (0 - 1)..size_sample[o] : GetTriplet(o, idx)

SpecPair == InitPair /\ [][NextPair]_vars


\* ------------------------------------------------------------------------
\* Properties of the catalog (SpecCatalog)
\* ------------------------------------------------------------------------
Ready(o) == pc[o] = "ready"
Basename(x) == <<x.exp, x.run>>
ListedRuns == {Basename(manifest[i]) : i \in 1..Len(manifest)}
PairsOf(b) == IF labelfile[b].exists THEN Len(labelfile[b].items) ELSE 0

RECURSIVE SumOver(_)
SumOver(S) ==
    IF S = {} THEN 0 ELSE LET b == CHOOSE x \in S : TRUE IN PairsOf(b) + SumOver(S \ {b})

\* the (event, label) pairs of the label files, one label file per row
RowPairs ==
    LET RECURSIVE Sum(_)
        Sum(i) == IF i = 0 THEN 0 ELSE PairsOf(Basename(manifest[i])) + Sum(i - 1)
    IN  Sum(Len(manifest))

\* the samples the label file of run b defines
DefinedBy(b) ==
    {[exp |-> b[1], run |-> b[2],
      event_num |-> ParseInt(labelfile[b].items[i].key),
      label |-> labelfile[b].items[i].label] : i \in 1..PairsOf(b)}

SamplesOf(o, b) ==
    {imglabel_list[o][i] : i \in {j \in 1..Len(imglabel_list[o]) : Basename(imglabel_list[o][j]) = b}}

\* C1 as stated: the catalog holds as many samples as the label files of the
\* manifest's rows define together, a run listed in two rows included.
C1Original == Ready(1) => Len(imglabel_list[1]) = RowPairs

\* C1, amended: the catalog holds exactly the (event, label) pairs of the
\* label files of the runs the manifest lists, every listed run counted once
\* however many rows list it; its length is their number and no position
\* repeats the (run, event) of another.
C1Amended ==
    Ready(1) =>
        /\ Len(imglabel_list[1]) = SumOver(ListedRuns)
        /\ {imglabel_list[1][i] : i \in 1..Len(imglabel_list[1])}
                = UNION {DefinedBy(b) : b \in ListedRuns}
        /\ \A i, j \in 1..Len(imglabel_list[1]) :
                (/\ Basename(imglabel_list[1][i]) = Basename(imglabel_list[1][j])
                 /\ imglabel_list[1][i].event_num = imglabel_list[1][j].event_num) => i = j

C1Witness ==
    /\ Ready(1)
    /\ Len(manifest) = 2 /\ manifest[1] = manifest[2]
    /\ Len(imglabel_list[1]) = 2
    /\ RowPairs = 4

RunPos(x) ==
    CHOOSE i \in 1..Len(manifest) :
        /\ Basename(manifest[i]) = Basename(x)
        /\ \A j \in 1..(i - 1) : Basename(manifest[j]) # Basename(x)

\* C2: the flat list is ordered by run in manifest order and, within a run,
\* ascending by the numeric value of event_num.
C2Ordered ==
    Ready(1) =>
        \A i, j \in 1..Len(imglabel_list[1]) :
            i < j =>
                \/ RunPos(imglabel_list[1][i]) < RunPos(imglabel_list[1][j])
                \/ /\ Basename(imglabel_list[1][i]) = Basename(imglabel_list[1][j])
                   /\ imglabel_list[1][i].event_num < imglabel_list[1][j].event_num

\* two runs, each with "10" and "2"; one file lists "10" first, the other "2"
C2Witness ==
    /\ Ready(1)
    /\ Len(imglabel_list[1]) = 4
    /\ \E b, c \in ListedRuns :
        /\ b # c
        /\ labelfile[b].items[1].key = <<1, 0>>
        /\ labelfile[c].items[1].key = <<2>>

\* C8: a run whose label file is absent gets an empty label index and no
\* sample; every other listed run contributes exactly the entries of its own
\* label file, the length is the total over the runs whose file exists, and
\* the runs that contribute keep the order of their first rows.
C8MissingFile ==
    Ready(1) =>
        /\ \A b \in ListedRuns :
            /\ ~labelfile[b].exists =>
                    DictGet(dataset_dict[1], b) = <<>> /\ SamplesOf(1, b) = {}
            /\ labelfile[b].exists =>
                    /\ SamplesOf(1, b) = DefinedBy(b)
                    /\ Len(DictGet(dataset_dict[1], b)) = Len(labelfile[b].items)
        /\ Len(imglabel_list[1]) = SumOver({b \in ListedRuns : labelfile[b].exists})
        /\ \A i, j \in 1..Len(imglabel_list[1]) :
                i < j => RunPos(imglabel_list[1][i]) <= RunPos(imglabel_list[1][j])

\* an absent file in the first row, a file of two entries in the second
C8Witness ==
    /\ Ready(1)
    /\ Len(manifest) = 2
    /\ ~labelfile[Basename(manifest[1])].exists
    /\ Len(labelfile[Basename(manifest[2])].items) = 2
    /\ Len(imglabel_list[1]) = 2

\* C7 as stated: no index outside [0, len) is resolved to a sample.
C7Original ==
    (ret.op \in {"getitem", "get_imagesize"}
        /\ (ret.arg < 0 \/ ret.arg >= Len(imglabel_list[1])))
    => (ret.kind = "IndexError" /\ ret.ids = <<>>)

\* C7, amended: get and get_imagesize fail with the IndexError of the list
\* lookup, resolving no sample, for every index >= len and every index < -len;
\* an index in [-len, -1] is resolved to the sample at len + index, and an
\* index in [0, len) to the sample at that index.
C7Amended ==
    ret.op \in {"getitem", "get_imagesize"} =>
        LET n == Len(imglabel_list[ret.obj]) IN
        /\ (ret.arg >= n \/ ret.arg < 0 - n) =>
                (ret.kind = "IndexError" /\ ret.where = "imglabel_list" /\ ret.ids = <<>>)
        /\ (ret.arg >= 0 - n /\ ret.arg < 0) => ret.ids = <<n + ret.arg>>
        /\ (ret.arg >= 0 /\ ret.arg < n) => ret.ids = <<ret.arg>>

C7Witness ==
    /\ ret.op = "getitem"
    /\ ret.arg = 0 - 1
    /\ ret.kind = "value"
    /\ Len(imglabel_list[1]) = 3
    /\ ret.ids = <<2>>


\* ------------------------------------------------------------------------
\* Properties of the triplet dataset (Spec, SpecPair)
\* ------------------------------------------------------------------------
\* the places (bucket, position) of the label buckets that hold index idx
PlacesOf(d, idx) ==
    {p \in UNION {{<<k, i>> : i \in 1..Len(d[k].val)} : k \in 1..Len(d)} :
        d[p[1]].val[p[2]] = idx}

LabelsIn(o) == {imglabel_list[o][i].label : i \in 1..Len(imglabel_list[o])}

\* C3: the label buckets partition [0, len(imglabel_list)): every index is in
\* exactly one bucket, once, and that bucket is the one of its sample's label;
\* the buckets hold nothing else.
C3Partition ==
    Ready(1) =>
        LET d == label_seqi_dict[1]
            n == Len(imglabel_list[1])
        IN  /\ num_stockimgs[1] = n
            /\ \A idx \in 0..(n - 1) :
                /\ Cardinality(PlacesOf(d, idx)) = 1
                /\ \A p \in PlacesOf(d, idx) : d[p[1]].key = imglabel_list[1][idx + 1].label
            /\ \A k \in 1..Len(d) : \A i \in 1..Len(d[k].val) : d[k].val[i] \in 0..(n - 1)
            /\ \A k, l \in 1..Len(d) : d[k].key = d[l].key => k = l

\* three buckets over four samples
C3Witness ==
    /\ Ready(1)
    /\ Len(imglabel_list[1]) = 4
    /\ Len(label_seqi_dict[1]) = 3

\* C4: in every triplet returned, the positive has the anchor's label and the
\* negative has another label.
C4Labels ==
    (ret.op = "getitem" /\ ret.kind = "value") =>
        LET list == imglabel_list[ret.obj]
            anchor == list[ret.ids[1] + 1]
            pos == list[ret.ids[2] + 1]
            neg == list[ret.ids[3] + 1]
        IN  /\ pos.label = anchor.label
            /\ neg.label # anchor.label
            /\ ret.label = anchor.label

\* a triplet over three labels whose positive is not the anchor itself
C4Witness ==
    /\ ret.op = "getitem"
    /\ ret.kind = "value"
    /\ Cardinality(LabelsIn(1)) = 3
    /\ ret.ids[1] # ret.ids[2]

\* C5: the triplet drawn depends on the catalog and the seed only: whatever
\* was called before and whichever of the two objects is asked, every
\* successful get returns the same index triple.
C5Deterministic == Cardinality(drawn[1] \cup drawn[2]) <= 1

\* both objects have returned a triplet, the latest for another request_index
C5Witness ==
    /\ drawn[1] # {}
    /\ drawn[2] # {}
    /\ ret.op = "getitem"
    /\ ret.kind = "value"
    /\ ret.obj = 2
    /\ ret.arg = 1

\* C6 as stated: no request_index outside [0, size_sample) yields a triplet.
C6Original ==
    (ret.op = "getitem" /\ (ret.arg < 0 \/ ret.arg >= size_sample[1]))
        => ret.kind # "value"

\* C6, amended: get fails with its range error, producing no triplet, exactly
\* for the request_index >= size_sample; a negative request_index passes the
\* range check like one in [0, size_sample).
C6Amended ==
    ret.op = "getitem" =>
        /\ ret.where = "size_sample" <=> ret.arg >= size_sample[ret.obj]
        /\ ret.arg >= size_sample[ret.obj] => (ret.kind = "IndexError" /\ ret.ids = <<>>)

C6Witness ==
    /\ ret.op = "getitem"
    /\ ret.arg = 0 - 1
    /\ ret.kind = "value"

\* C9: once the object is constructed, no call changes the flat list, the
\* buckets or the readers, and none opens a data source.
C9Frame ==
    [][Ready(1) => (catalog' = catalog /\ sampler' = sampler /\ opens' = opens)]_vars

\* both runs opened once, and a triplet read through their readers
C9Witness ==
    /\ Ready(1)
    /\ \A b \in Basenames : opens[b] = 1
    /\ ret.op = "getitem"
    /\ ret.kind = "value"

\* C10: over a catalog of fewer than two labels a get with a valid
\* request_index returns no triplet: the anchor draw fails on the empty
\* catalog, and otherwise the negative draw fails on the empty pool (unless
\* reading the anchor image failed before it).
C10NoNegative ==
    (/\ ret.op = "getitem"
     /\ ret.arg >= 0 /\ ret.arg < size_sample[ret.obj]
     /\ Cardinality(LabelsIn(ret.obj)) < 2)
    => /\ ret.kind # "value"
       /\ imglabel_list[ret.obj] = <<>> =>
            (ret.kind = "ValueError" /\ ret.where = "anchor_bucket")
       /\ imglabel_list[ret.obj] # <<>> =>
            \/ ret.kind = "ValueError" /\ ret.where = "neg_bucket"
            \/ ret.kind = "IndexError" /\ ret.where = "timestamps"

\* four samples of one label, and the negative draw failed
C10Witness ==
    /\ ret.op = "getitem"
    /\ ret.arg = 0
    /\ Len(imglabel_list[1]) = 4
    /\ Cardinality(LabelsIn(1)) = 1
    /\ ret.where = "neg_bucket"

====
